---- MODULE Spec2Model ----
(***************************************************************************)
(* State-machine model of the spotify-api.js client.                       *)
(*                                                                         *)
(*  - PlaylistManager (src/unnamed/part_000): search, get, getTracks,      *)
(*    getImages, userFollows, addItems, reorderItems, removeItems,         *)
(*    uploadImage, and the playlist cache they share.                      *)
(*  - Client (src/dist/Client.js): constructor, login, search, request,    *)
(*    getByURI.                                                            *)
(*  - Artist (src/src/lib/Artist.ts): search, get, getAlbums, topTracks,   *)
(*    relatedArtists.                                                      *)
(*                                                                         *)
(* JavaScript runs one continuation at a time: an action is the code that  *)
(* runs between two awaits.  The HTTP layer and the remote server are the  *)
(* environment: a request in flight is answered, in any order, by a        *)
(* success or by a failure.                                                *)
(***************************************************************************)
EXTENDS Integers, Sequences, FiniteSets, TLC

\* ------------------------------------------------------------------ bounds
\* Number of manager / client invocations explored in one behaviour.
MaxOps == 3
\* Number of Playlist objects constructed in one behaviour.
MaxObjs == MaxOps
\* Latest reading of the clock in one behaviour.
MaxTime == MaxOps

\* ------------------------------------------------------------- value sets
\* Spotify playlist ids.
Ids == {"p1", "p2"}
\* The two callers that may have a PlaylistManager call in progress.
Slots == {"s1", "s2"}
\* Search queries.
Queries == {"rock", "jazz"}

\* The empty object {} (a function with the empty domain).
EmptyObj == [k \in {} |-> ""]

\* Object spread { ...a, ...b }: keys of b override keys of a.
Spread(a, b) ==
    [k \in (DOMAIN a) \cup (DOMAIN b) |-> IF k \in DOMAIN b THEN b[k] ELSE a[k]]

\* The options objects a caller passes to search: undefined (spreads as {}),
\* and an object that carries a limit and smuggles in a `type` and a `q`.
SearchOptionValues ==
    { EmptyObj,
      [k \in {"type", "q", "limit"} |->
          IF k = "type" THEN "track" ELSE IF k = "q" THEN "pop" ELSE "5"] }

\* All sequences over S of length 0..n.
RECURSIVE SeqsUpTo(_, _)
SeqsUpTo(S, n) ==
    IF n = 0 THEN {<<>>}
    ELSE LET shorter == SeqsUpTo(S, n - 1)
         IN  shorter \cup {Append(q, x) : q \in {r \in shorter : Len(r) = n - 1}, x \in S}

\* The item lists (playlist ids, in order) a search response carries:
\* every list of at most two ids, the same id twice included.
SearchItemValues == SeqsUpTo(Ids, 2)

\* The bodies of the array responses that a method hands back unparsed.
ArrayBodies == {<<>>, <<"x">>}

\* ---------------------------------------------------------------- results
\* What a call has returned (the settled value of its promise).
Pending        == [kind |-> "pending"]
Thrown         == [kind |-> "thrown"]
NullValue      == [kind |-> "null"]
PlaylistValue(o) == [kind |-> "playlist", obj |-> o]
PagingValue(l, o, t, its) ==
    [kind |-> "paging", limit |-> l, offset |-> o, total |-> t, items |-> its]
ArrayValue(its) == [kind |-> "array", items |-> its]
BoolValue(b)   == [kind |-> "bool", val |-> b]
StringValue(s) == [kind |-> "string", val |-> s]

NoReq == [path |-> <<>>, method |-> "NONE", params |-> EmptyObj]

VARIABLES
    api,             \* which generation of the library the program uses
    cacheOptions,    \* client.cacheOptions
    cache,           \* client.cache.playlists : id -> object (0 = no entry)
    objs,            \* objs[k] = id of the k-th Playlist object constructed
    calls,           \* per slot: the PlaylistManager call in progress
    ops,             \* number of invocations so far
    token,           \* client.token
    mgrToken,        \* the token each manager of the client was built with
    startedAt,       \* client.startedAt
    now,             \* Date.now()
    login,           \* the last call of client.login and how it ended
    op               \* the Client / Artist call in progress

managerVars == <<cacheOptions, cache, objs, calls>>
clientVars  == <<token, mgrToken, startedAt, now, login, op>>
vars == <<api, cacheOptions, cache, objs, calls, ops, token, mgrToken,
          startedAt, now, login, op>>

NoObj == 0

\* A slot with no call in progress.
IdleCall ==
    [method |-> "none", pc |-> "idle", id |-> "", forceArg |-> "omitted",
     query |-> "", options |-> EmptyObj, born |-> 0, http |-> 0, failed |-> FALSE,
     req |-> NoReq, ret |-> Pending]

\* The managers a Client owns (Client.js, constructor and login).
Managers ==
    {"utils", "oauth", "users", "playlists", "tracks", "albums", "artists",
     "episodes", "shows", "browse", "user"}

\* Tokens a caller passes; "" stands for a missing (falsy) token.
Tokens == {"", "t1", "t2"}

\* No Client / Artist call in progress.
\*   settled, err : the state of the promise the call returned
\*   inner        : the state of the promise of the manager call inside getByURI
\*   http         : requests sent;  fetchFailed / codeFailed : which one failed
\*   n, i, coded  : items returned, loop index, items given a codeImage
\*   cb           : the invocations of request's callback, in order
\*   uriType      : split[1] of the URI given to getByURI
IdleOp ==
    [name |-> "none", pc |-> "idle", arg |-> "", advanced |-> FALSE, mgr |-> "none",
     settled |-> "pending", err |-> "none", inner |-> "none",
     http |-> 0, fetchFailed |-> FALSE, codeFailed |-> FALSE,
     n |-> 0, i |-> 0, coded |-> <<>>, cb |-> <<>>, cbThrows |-> FALSE,
     uriType |-> ""]

\* new Client(oauth, cacheOptions): the state after construction.
ClientInit(oauth) ==
    /\ token = (IF oauth = "" THEN "NO TOKEN" ELSE oauth)
    /\ mgrToken = [m \in Managers |-> token]
    /\ startedAt = 0
    /\ now = 0
    /\ login = [n |-> 0, arg |-> "", result |-> "none"]
    /\ op = IdleOp
    /\ cache = [i \in Ids |-> NoObj]
    /\ objs = <<>>
    /\ calls = [s \in Slots |-> IdleCall]
    /\ ops = 0

\* The repository holds two generations of the library, and a program runs
\* one of them: the manager classes (PlaylistManager, with the client's
\* cache) or the lib classes (Client.js with lib/Artist).
Init ==
    \/ /\ api = "managers"
       /\ cacheOptions \in [cachePlaylists : BOOLEAN]
       /\ ClientInit("t1")
    \/ /\ api = "lib"
       /\ cacheOptions = [cachePlaylists |-> FALSE]
       /\ \E oauth \in Tokens : ClientInit(oauth)

\* ------------------------------------------------- PlaylistManager helpers
\* The `force` argument of get: omitted, or an explicit boolean.
ForceArgs == {"omitted", "true", "false"}

\* get's default parameter: force = !this.client.cacheOptions.cachePlaylists
DefaultForce == ~cacheOptions.cachePlaylists

EffectiveForce(forceArg) ==
    IF forceArg = "omitted" THEN DefaultForce ELSE forceArg = "true"

\* Mutant of CacheHit: the force test inverted, if(force){ ... }.
CacheHitForceInverted(id, force) == force /\ cache[id] # NoObj

\* Mutant of CacheHit: the force flag never consulted.
CacheHitIgnoresForce(id, force) == cache[id] # NoObj

\* get's cache lookup: if(!force){ existing = cache.get(id); if(existing) ... }
CacheHit(id, force) == (~force) /\ cache[id] # NoObj

\* Mutant of CacheSet: an entry already present is kept (set only if absent).
CacheSetIfAbsent(c, id, o) ==
    IF cacheOptions.cachePlaylists /\ c[id] = NoObj THEN [c EXCEPT ![id] = o] ELSE c

\* Mutant of CacheSet: the cachePlaylists test inverted.
CacheSetInverted(c, id, o) ==
    IF ~cacheOptions.cachePlaylists THEN [c EXCEPT ![id] = o] ELSE c

\* if(cacheOptions.cachePlaylists) cache.playlists.set(playlist.id, playlist)
\* c: the cache map, o: the object's serial, id: the object's id.
CacheSet(c, id, o) ==
    IF cacheOptions.cachePlaylists THEN [c EXCEPT ![id] = o] ELSE c

\* search's loop: for(i = 0; i < playlists.length; i++) cache.set(...),
\* over the objects first, first+1, ... built from the items of a response.
RECURSIVE CacheSetAll(_, _, _)
CacheSetAll(c, items, first) ==
    IF items = <<>> THEN c
    ELSE CacheSetAll(CacheSet(c, Head(items), first), Tail(items), first + 1)

\* Mutant of SearchParams: the options spread last, { type, q, ...options }.
SearchParamsOptionsLast(query, options) ==
    Spread([k \in {"type", "q"} |-> IF k = "type" THEN "playlist" ELSE query], options)

\* The params object search sends: { ...options, type: 'playlist', q: query }
SearchParams(query, options) ==
    Spread(options, [k \in {"type", "q"} |-> IF k = "type" THEN "playlist" ELSE query])

\* The shared error handler (../Errors): it either throws or returns null.
HandleErrorOutcomes == {"throw", "null"}
HandleError(outcome) == IF outcome = "throw" THEN Thrown ELSE NullValue

\* JavaScript's  handleError(e) || d : a throw propagates, null yields d.
OrDefault(v, d) ==
    IF v.kind = "thrown" THEN v ELSE IF v.kind = "null" THEN d ELSE v

\* Mutant of GetTracksDefault: the empty array in place of the empty page.
GetTracksDefaultArray == ArrayValue(<<>>)

\* The value each method's catch block falls back to.
SearchDefault       == PagingValue(0, 0, 0, <<>>)
GetTracksDefault    == PagingValue(0, 0, 0, <<>>)
GetImagesDefault    == ArrayValue(<<>>)
UserFollowsDefault  == ArrayValue(<<>>)
AddItemsDefault     == NullValue
ReorderItemsDefault == NullValue
RemoveItemsDefault  == NullValue
UploadImageDefault  == BoolValue(FALSE)

\* The consecutive object serials first, first+1, ..., first+n-1.
Serials(first, n) == [i \in 1..n |-> first + i - 1]

\* this.fetch(path, options): the call in slot s issues one HTTP request and
\* suspends at its await.
Issue(s, c, r) ==
    /\ api = "managers"
    /\ calls[s].pc = "idle"
    /\ ops < MaxOps
    /\ calls' = [calls EXCEPT ![s] =
          [c EXCEPT !.pc = "awaiting", !.http = 1, !.req = r]]
    /\ ops' = ops + 1

\* The call in slot s settles with value v; its id is kept for get and
\* addItems only (born: the number of Playlist objects that existed when get
\* began).
Settle(s, v, failed) ==
    calls' = [calls EXCEPT ![s].pc = "done", ![s].ret = v, ![s].failed = failed,
                          ![s].req = NoReq, ![s].query = "", ![s].options = EmptyObj,
                          ![s].id = IF calls[s].method \in {"get", "addItems"}
                                    THEN calls[s].id ELSE ""]

Awaiting(s, m) == calls[s].pc = "awaiting" /\ calls[s].method = m

\* ------------------------------------------------- PlaylistManager.search
Search(s, query, options) ==
    /\ Issue(s, [IdleCall EXCEPT !.method = "search", !.query = query,
                                  !.options = options],
             [path |-> <<"/search">>, method |-> "GET",
              params |-> SearchParams(query, options)])
    /\ UNCHANGED <<api, cacheOptions, cache, objs, clientVars>>

\* The response arrives: one Playlist per item, each cached under its id.
SearchOk(s, items) ==
    /\ Awaiting(s, "search")
    /\ Len(objs) + Len(items) <= MaxObjs
    /\ LET first == Len(objs) + 1
       IN  /\ objs' = objs \o items
           /\ cache' = CacheSetAll(cache, items, first)
           /\ Settle(s, PagingValue(Len(items) + 1, 1, Len(items),
                                    Serials(first, Len(items))), FALSE)
    /\ UNCHANGED <<api, cacheOptions, ops, clientVars>>

SearchFail(s, outcome) ==
    /\ Awaiting(s, "search")
    /\ Settle(s, OrDefault(HandleError(outcome), SearchDefault), TRUE)
    /\ UNCHANGED <<api, cacheOptions, cache, objs, ops, clientVars>>

\* ---------------------------------------------------- PlaylistManager.get
Get(s, id, forceArg) ==
    /\ api = "managers"
    /\ calls[s].pc = "idle"
    /\ ops < MaxOps
    /\ IF CacheHit(id, EffectiveForce(forceArg))
       THEN /\ calls' = [calls EXCEPT ![s] =
                  [IdleCall EXCEPT !.method = "get", !.pc = "done", !.id = id,
                                   !.forceArg = forceArg, !.born = Len(objs),
                                   !.ret = PlaylistValue(cache[id])]]
            /\ ops' = ops + 1
       ELSE Issue(s, [IdleCall EXCEPT !.method = "get", !.id = id,
                                      !.forceArg = forceArg, !.born = Len(objs)],
                  [path |-> <<"/playlists/", id>>, method |-> "GET",
                   params |-> [k \in {"market"} |-> "US"]])
    /\ UNCHANGED <<api, cacheOptions, cache, objs, clientVars>>

\* The response arrives; the server answers GET /playlists/{id} with the
\* playlist whose id is id.
GetOk(s) ==
    /\ Awaiting(s, "get")
    /\ Len(objs) < MaxObjs
    /\ LET o == Len(objs) + 1
           pid == calls[s].id
       IN  /\ objs' = Append(objs, pid)
           /\ cache' = CacheSet(cache, pid, o)
           /\ Settle(s, PlaylistValue(o), FALSE)
    /\ UNCHANGED <<api, cacheOptions, ops, clientVars>>

\* Mutant of GetFail: a failed get evicts the entry cached under its id.
GetFailEvicts(s, outcome) ==
    /\ Awaiting(s, "get")
    /\ Settle(s, HandleError(outcome), TRUE)
    /\ cache' = [cache EXCEPT ![calls[s].id] = NoObj]
    /\ UNCHANGED <<api, cacheOptions, objs, ops, clientVars>>

GetFail(s, outcome) ==
    /\ Awaiting(s, "get")
    /\ Settle(s, HandleError(outcome), TRUE)
    /\ UNCHANGED <<api, cacheOptions, cache, objs, ops, clientVars>>

\* ---------------------------------------------- the cache-free methods
GetTracks(s, id) ==
    /\ Issue(s, [IdleCall EXCEPT !.method = "getTracks", !.id = id],
             [path |-> <<"/playlists/", id, "/tracks">>, method |-> "GET",
              params |-> [k \in {"market"} |-> "US"]])
    /\ UNCHANGED <<api, cacheOptions, cache, objs, clientVars>>

GetTracksOk(s, items) ==
    /\ Awaiting(s, "getTracks")
    /\ Settle(s, PagingValue(Len(items) + 1, 1, Len(items), items), FALSE)
    /\ UNCHANGED <<api, cacheOptions, cache, objs, ops, clientVars>>

GetTracksFail(s, outcome) ==
    /\ Awaiting(s, "getTracks")
    /\ Settle(s, OrDefault(HandleError(outcome), GetTracksDefault), TRUE)
    /\ UNCHANGED <<api, cacheOptions, cache, objs, ops, clientVars>>

GetImages(s, id) ==
    /\ Issue(s, [IdleCall EXCEPT !.method = "getImages", !.id = id],
             [path |-> <<"/playlists/", id, "/images">>, method |-> "GET",
              params |-> EmptyObj])
    /\ UNCHANGED <<api, cacheOptions, cache, objs, clientVars>>

GetImagesOk(s, body) ==
    /\ Awaiting(s, "getImages")
    /\ Settle(s, ArrayValue(body), FALSE)
    /\ UNCHANGED <<api, cacheOptions, cache, objs, ops, clientVars>>

GetImagesFail(s, outcome) ==
    /\ Awaiting(s, "getImages")
    /\ Settle(s, OrDefault(HandleError(outcome), GetImagesDefault), TRUE)
    /\ UNCHANGED <<api, cacheOptions, cache, objs, ops, clientVars>>

UserFollows(s, id) ==
    /\ Issue(s, [IdleCall EXCEPT !.method = "userFollows", !.id = id],
             [path |-> <<"/playlists/", id, "/followers/contains">>, method |-> "GET",
              params |-> [k \in {"ids"} |-> "u1,u2"]])
    /\ UNCHANGED <<api, cacheOptions, cache, objs, clientVars>>

UserFollowsOk(s, body) ==
    /\ Awaiting(s, "userFollows")
    /\ Settle(s, ArrayValue(body), FALSE)
    /\ UNCHANGED <<api, cacheOptions, cache, objs, ops, clientVars>>

UserFollowsFail(s, outcome) ==
    /\ Awaiting(s, "userFollows")
    /\ Settle(s, OrDefault(HandleError(outcome), UserFollowsDefault), TRUE)
    /\ UNCHANGED <<api, cacheOptions, cache, objs, ops, clientVars>>

AddItems(s, id) ==
    /\ Issue(s, [IdleCall EXCEPT !.method = "addItems", !.id = id],
             [path |-> <<"/playlists/", id, "/tracks">>, method |-> "POST",
              params |-> [k \in {"uris"} |-> "spotify:track:t1"]])
    /\ UNCHANGED <<api, cacheOptions, cache, objs, clientVars>>

\* Mutant of AddItemsOk: a successful addItems drops the playlist's entry
\* from the cache.
AddItemsOkInvalidates(s) ==
    /\ Awaiting(s, "addItems")
    /\ Settle(s, StringValue("snapshot"), FALSE)
    /\ cache' = [cache EXCEPT ![calls[s].id] = NoObj]
    /\ UNCHANGED <<api, cacheOptions, objs, ops, clientVars>>

AddItemsOk(s) ==
    /\ Awaiting(s, "addItems")
    /\ Settle(s, StringValue("snapshot"), FALSE)
    /\ UNCHANGED <<api, cacheOptions, cache, objs, ops, clientVars>>

AddItemsFail(s, outcome) ==
    /\ Awaiting(s, "addItems")
    /\ Settle(s, OrDefault(HandleError(outcome), AddItemsDefault), TRUE)
    /\ UNCHANGED <<api, cacheOptions, cache, objs, ops, clientVars>>

ReorderItems(s, id) ==
    /\ Issue(s, [IdleCall EXCEPT !.method = "reorderItems", !.id = id],
             [path |-> <<"/playlists/", id, "/tracks">>, method |-> "PUT",
              params |-> [k \in {"uris"} |-> "spotify:track:t1"]])
    /\ UNCHANGED <<api, cacheOptions, cache, objs, clientVars>>

ReorderItemsOk(s) ==
    /\ Awaiting(s, "reorderItems")
    /\ Settle(s, StringValue("snapshot"), FALSE)
    /\ UNCHANGED <<api, cacheOptions, cache, objs, ops, clientVars>>

ReorderItemsFail(s, outcome) ==
    /\ Awaiting(s, "reorderItems")
    /\ Settle(s, OrDefault(HandleError(outcome), ReorderItemsDefault), TRUE)
    /\ UNCHANGED <<api, cacheOptions, cache, objs, ops, clientVars>>

RemoveItems(s, id) ==
    /\ Issue(s, [IdleCall EXCEPT !.method = "removeItems", !.id = id],
             [path |-> <<"/playlists/", id, "/tracks">>, method |-> "DELETE",
              params |-> [k \in {"tracks"} |-> "spotify:track:t1"]])
    /\ UNCHANGED <<api, cacheOptions, cache, objs, clientVars>>

RemoveItemsOk(s) ==
    /\ Awaiting(s, "removeItems")
    /\ Settle(s, StringValue("snapshot"), FALSE)
    /\ UNCHANGED <<api, cacheOptions, cache, objs, ops, clientVars>>

RemoveItemsFail(s, outcome) ==
    /\ Awaiting(s, "removeItems")
    /\ Settle(s, OrDefault(HandleError(outcome), RemoveItemsDefault), TRUE)
    /\ UNCHANGED <<api, cacheOptions, cache, objs, ops, clientVars>>

UploadImage(s, id) ==
    /\ Issue(s, [IdleCall EXCEPT !.method = "uploadImage", !.id = id],
             [path |-> <<"/playlists/", id, "/images">>, method |-> "PUT",
              params |-> [k \in {"body"} |-> "jpeg"]])
    /\ UNCHANGED <<api, cacheOptions, cache, objs, clientVars>>

UploadImageOk(s) ==
    /\ Awaiting(s, "uploadImage")
    /\ Settle(s, BoolValue(TRUE), FALSE)
    /\ UNCHANGED <<api, cacheOptions, cache, objs, ops, clientVars>>

UploadImageFail(s, outcome) ==
    /\ Awaiting(s, "uploadImage")
    /\ Settle(s, OrDefault(HandleError(outcome), UploadImageDefault), TRUE)
    /\ UNCHANGED <<api, cacheOptions, cache, objs, ops, clientVars>>

\* The caller takes the settled value; its slot is free for the next call.
Return(s) ==
    /\ calls[s].pc = "done"
    /\ calls' = [calls EXCEPT ![s] = IdleCall]
    /\ UNCHANGED <<api, cacheOptions, cache, objs, ops, clientVars>>

NextPlaylist ==
    \E s \in Slots :
        \/ \E q \in Queries, o \in SearchOptionValues : Search(s, q, o)
        \/ \E items \in SearchItemValues : SearchOk(s, items)
        \/ \E h \in HandleErrorOutcomes : SearchFail(s, h)
        \/ \E id \in Ids, f \in ForceArgs : Get(s, id, f)
        \/ GetOk(s)
        \/ \E h \in HandleErrorOutcomes : GetFail(s, h)
        \/ \E id \in Ids : GetTracks(s, id)
        \/ \E b \in ArrayBodies : GetTracksOk(s, b)
        \/ \E h \in HandleErrorOutcomes : GetTracksFail(s, h)
        \/ \E id \in Ids : GetImages(s, id)
        \/ \E b \in ArrayBodies : GetImagesOk(s, b)
        \/ \E h \in HandleErrorOutcomes : GetImagesFail(s, h)
        \/ \E id \in Ids : UserFollows(s, id)
        \/ \E b \in ArrayBodies : UserFollowsOk(s, b)
        \/ \E h \in HandleErrorOutcomes : UserFollowsFail(s, h)
        \/ \E id \in Ids : AddItems(s, id)
        \/ AddItemsOk(s)
        \/ \E h \in HandleErrorOutcomes : AddItemsFail(s, h)
        \/ \E id \in Ids : ReorderItems(s, id)
        \/ ReorderItemsOk(s)
        \/ \E h \in HandleErrorOutcomes : ReorderItemsFail(s, h)
        \/ \E id \in Ids : RemoveItems(s, id)
        \/ RemoveItemsOk(s)
        \/ \E h \in HandleErrorOutcomes : RemoveItemsFail(s, h)
        \/ \E id \in Ids : UploadImage(s, id)
        \/ UploadImageOk(s)
        \/ \E h \in HandleErrorOutcomes : UploadImageFail(s, h)
        \/ Return(s)

\* ========================================================== Client (lib)
\* Mutant of LoginMissing: the token check left out.
LoginMissingNever(tok) == FALSE

\* login's guard: if (!token)
LoginMissing(tok) == tok = ""

\* Mutant of Login: the track manager is not rebuilt and keeps the old token.
LoginKeepsTracks(tok) ==
    /\ api = "lib"
    /\ ops < MaxOps
    /\ ops' = ops + 1
    /\ IF LoginMissing(tok)
       THEN /\ login' = [n |-> login.n + 1, arg |-> tok, result |-> "MissingParamError"]
            /\ UNCHANGED <<token, mgrToken, startedAt>>
       ELSE /\ login' = [n |-> login.n + 1, arg |-> tok, result |-> "ok"]
            /\ token' = tok
            /\ mgrToken' = [m \in Managers |-> IF m = "tracks" THEN mgrToken[m] ELSE tok]
            /\ startedAt' = now
    /\ UNCHANGED <<api, managerVars, now, op>>

\* client.login(token)
Login(tok) ==
    /\ api = "lib"
    /\ ops < MaxOps
    /\ ops' = ops + 1
    /\ IF LoginMissing(tok)
       THEN /\ login' = [n |-> login.n + 1, arg |-> tok, result |-> "MissingParamError"]
            /\ UNCHANGED <<token, mgrToken, startedAt>>
       ELSE /\ login' = [n |-> login.n + 1, arg |-> tok, result |-> "ok"]
            /\ token' = tok
            /\ mgrToken' = [m \in Managers |-> tok]
            /\ startedAt' = now
    /\ UNCHANGED <<api, managerVars, now, op>>

\* Time passes.
Tick ==
    /\ api = "lib"
    /\ now < MaxTime
    /\ now' = now + 1
    /\ UNCHANGED <<api, managerVars, ops, token, mgrToken, startedAt, login, op>>

\* resolve(...) / reject(...) of a promise: only the first call settles it.
SettleOnce(o, kind, err) ==
    IF o.settled = "pending" THEN [o EXCEPT !.settled = kind, !.err = err] ELSE o

\* A Client / Artist method is entered.
OpEnter ==
    /\ api = "lib"
    /\ op.pc = "idle"
    /\ ops < MaxOps
    /\ ops' = ops + 1

OpFrame == UNCHANGED <<api, managerVars, ops, token, mgrToken, startedAt, now, login>>

\* ------------------------------------------------------ lib/Artist.ts
ArtistMethods == {"search", "get", "getAlbums", "topTracks", "relatedArtists"}

\* Arguments q / id; "" stands for a missing (falsy) one.
ArgValues == {"", "a1"}

\* How many items the primary response of an Artist method carries
\* (get builds exactly one object from its response).
ItemCounts(m) == IF m = "get" THEN {1} ELSE {0, 1, 2}

\* Mutant of LoopContinues: the loop stops one item early.
LoopContinuesOffByOne(i, n) == i + 1 < n

\* The loop test  i < items.length  of the advanced branch.
LoopContinues(i, n) == i < n

\* search, get, getAlbums, topTracks, relatedArtists up to their first await:
\* if the argument is missing the promise is rejected, and (there being no
\* return) the request is sent all the same.
ArtistCall(m, arg, advanced) ==
    /\ OpEnter
    /\ op' = [SettleOnce(IdleOp,
                         IF arg = "" THEN "rejected" ELSE "pending",
                         IF arg = "" THEN "MissingParamError" ELSE "none")
                EXCEPT !.name = m, !.pc = "fetch", !.arg = arg,
                       !.advanced = advanced, !.http = 1]
    /\ UNCHANGED <<api, managerVars, token, mgrToken, startedAt, now, login>>

\* Mutant of ArtistFetchOk: the test of options.advanced left out, so the
\* items are annotated on every call.
ArtistFetchOkIgnoresAdvanced(n) ==
    /\ api = "lib"
    /\ op.name \in ArtistMethods /\ op.pc = "fetch"
    /\ n \in ItemCounts(op.name)
    /\ IF LoopContinues(0, n)
       THEN op' = [op EXCEPT !.n = n, !.i = 0, !.pc = "code", !.http = op.http + 1]
       ELSE op' = [SettleOnce(op, "resolved", "none") EXCEPT !.n = n, !.pc = "done"]
    /\ OpFrame

\* The primary response arrives with n items; with advanced set and an item
\* to annotate, the first getCodeImage request is sent, else the call resolves.
ArtistFetchOk(n) ==
    /\ api = "lib"
    /\ op.name \in ArtistMethods /\ op.pc = "fetch"
    /\ n \in ItemCounts(op.name)
    /\ IF op.advanced /\ LoopContinues(0, n)
       THEN op' = [op EXCEPT !.n = n, !.i = 0, !.pc = "code", !.http = op.http + 1]
       ELSE op' = [SettleOnce(op, "resolved", "none") EXCEPT !.n = n, !.pc = "done"]
    /\ OpFrame

\* The primary request fails: catch (e) { reject(new UnexpectedError(e)) }
ArtistFetchFail ==
    /\ api = "lib"
    /\ op.name \in ArtistMethods /\ op.pc = "fetch"
    /\ op' = [SettleOnce(op, "rejected", "UnexpectedError")
                EXCEPT !.fetchFailed = TRUE, !.pc = "done"]
    /\ OpFrame

\* getCodeImage(items[i].uri) answers: item i gets codeImage and
\* dominantColor, then the loop goes on to item i + 1 or the call resolves.
ArtistCodeOk ==
    /\ api = "lib"
    /\ op.name \in ArtistMethods /\ op.pc = "code"
    /\ LET annotated == [op EXCEPT !.coded = Append(op.coded, op.i), !.i = op.i + 1]
       IN  IF LoopContinues(annotated.i, op.n)
           THEN op' = [annotated EXCEPT !.http = op.http + 1]
           ELSE op' = [SettleOnce(annotated, "resolved", "none") EXCEPT !.pc = "done"]
    /\ OpFrame

\* Mutant of ArtistCodeFail: the failure is swallowed and the items annotated
\* so far are resolved.
ArtistCodeFailResolvesPartial ==
    /\ api = "lib"
    /\ op.name \in ArtistMethods /\ op.pc = "code"
    /\ op' = [SettleOnce(op, "resolved", "none")
                EXCEPT !.codeFailed = TRUE, !.pc = "done"]
    /\ OpFrame

\* getCodeImage fails: the loop is left through the catch block.
ArtistCodeFail ==
    /\ api = "lib"
    /\ op.name \in ArtistMethods /\ op.pc = "code"
    /\ op' = [SettleOnce(op, "rejected", "UnexpectedError")
                EXCEPT !.codeFailed = TRUE, !.pc = "done"]
    /\ OpFrame

\* ------------------------------------------------------- Client.search
ClientSearch(q) ==
    /\ OpEnter
    /\ op' = [SettleOnce(IdleOp,
                         IF q = "" THEN "rejected" ELSE "pending",
                         IF q = "" THEN "MissingParamError" ELSE "none")
                EXCEPT !.name = "Client.search", !.pc = "fetch", !.arg = q, !.http = 1]
    /\ UNCHANGED <<api, managerVars, token, mgrToken, startedAt, now, login>>

ClientSearchOk ==
    /\ api = "lib"
    /\ op.name = "Client.search" /\ op.pc = "fetch"
    /\ op' = [SettleOnce(op, "resolved", "none") EXCEPT !.pc = "done"]
    /\ OpFrame

ClientSearchFail ==
    /\ api = "lib"
    /\ op.name = "Client.search" /\ op.pc = "fetch"
    /\ op' = [SettleOnce(op, "rejected", "UnexpectedError")
                EXCEPT !.fetchFailed = TRUE, !.pc = "done"]
    /\ OpFrame

\* ------------------------------------------------------ Client.request
\* request(path, options, callback): fetch(...).then(...).catch(...)
Request(cbThrows) ==
    /\ OpEnter
    /\ op' = [IdleOp EXCEPT !.name = "Client.request", !.pc = "fetch", !.http = 1,
                            !.cbThrows = cbThrows]
    /\ UNCHANGED <<api, managerVars, token, mgrToken, startedAt, now, login>>

\* .then(x => callback(null, x)): a callback that throws rejects the chain.
RequestThen ==
    /\ api = "lib"
    /\ op.name = "Client.request" /\ op.pc = "fetch"
    /\ op' = [op EXCEPT !.cb = Append(op.cb, "data"),
                        !.pc = IF op.cbThrows THEN "rejected" ELSE "done"]
    /\ OpFrame

\* The fetch fails: the rejection passes the then handler by.
RequestFetchFail ==
    /\ api = "lib"
    /\ op.name = "Client.request" /\ op.pc = "fetch"
    /\ op' = [op EXCEPT !.fetchFailed = TRUE, !.pc = "rejected"]
    /\ OpFrame

\* .catch(x => callback(x, null)): runs for any rejection of the chain.
RequestCatch ==
    /\ api = "lib"
    /\ op.name = "Client.request" /\ op.pc = "rejected"
    /\ op' = [op EXCEPT !.cb = Append(op.cb, "error"), !.pc = "done"]
    /\ OpFrame

\* ----------------------------------------------------- Client.getByURI
\* A URI as its characters, with ":" the only character that matters.
UriValues ==
    { <<"spotify", ":", "album", ":", "a1">>,
      <<"spotify", ":", "artist", ":", "a1">>,
      <<"spotify", ":", "episode", ":", "a1">>,
      <<"spotify", ":", "show", ":", "a1">>,
      <<"spotify", ":", "track", ":", "a1">>,
      <<"spotify", ":", "user", ":", "a1">>,
      <<"spotify", ":", "playlist", ":", "a1">>,
      <<"spotify", ":", "artist">> }

\* uri.split(':') : the pieces between the separators.
RECURSIVE Split(_, _)
Split(str, sep) ==
    IF \A k \in 1..Len(str) : str[k] # sep THEN <<str>>
    ELSE LET at == CHOOSE k \in 1..Len(str) :
                       str[k] = sep /\ \A j \in 1..(k - 1) : str[j] # sep
         IN  <<SubSeq(str, 1, at - 1)>> \o Split(SubSeq(str, at + 1, Len(str)), sep)

\* split[k] with JavaScript's 0-based index; undefined is the empty piece.
Piece(split, k) == IF k + 1 <= Len(split) THEN split[k + 1] ELSE <<>>

\* A piece as the string it spells (pieces here hold at most one word).
Word(piece) == IF piece = <<>> THEN "" ELSE piece[1]

\* The switch of getByURI: the manager whose get is called for a type.
ManagerFor(type) ==
    CASE type = "album"   -> "albums"
      [] type = "artist"  -> "artists"
      [] type = "episode" -> "episodes"
      [] type = "show"    -> "shows"
      [] type = "track"   -> "shows"
      [] type = "user"    -> "shows"
      [] OTHER            -> "none"

\* getByURI(uri) up to its first await.  The manager's get behaves as
\* Artist.get: a missing id rejects its promise, and the request is sent all
\* the same; getByURI turns that rejection into an UnexpectedError at once.
GetByURI(uri) ==
    /\ OpEnter
    /\ LET split == Split(uri, ":")
           type  == Word(Piece(split, 1))
           id    == Word(Piece(split, 2))
           mgr   == ManagerFor(type)
       IN  IF mgr = "none"
           THEN op' = [SettleOnce(IdleOp, "rejected", "UnexpectedError")
                         EXCEPT !.name = "Client.getByURI", !.pc = "done", !.arg = id,
                                !.uriType = type]
           ELSE op' = [SettleOnce(IdleOp,
                                  IF id = "" THEN "rejected" ELSE "pending",
                                  IF id = "" THEN "UnexpectedError" ELSE "none")
                         EXCEPT !.name = "Client.getByURI", !.pc = "fetch", !.arg = id,
                                !.mgr = mgr, !.http = 1, !.uriType = type,
                                !.inner = IF id = "" THEN "MissingParamError"
                                                     ELSE "pending"]
    /\ UNCHANGED <<api, managerVars, token, mgrToken, startedAt, now, login>>

\* The manager's request answers: resolve(await manager.get(id))
GetByURIOk ==
    /\ api = "lib"
    /\ op.name = "Client.getByURI" /\ op.pc = "fetch"
    /\ op' = [SettleOnce(op, "resolved", "none")
                EXCEPT !.pc = "done",
                       !.inner = IF op.inner = "pending" THEN "resolved" ELSE op.inner]
    /\ OpFrame

\* The manager's request fails: the manager rejects with UnexpectedError and
\* getByURI's catch wraps it in another.
GetByURIFail ==
    /\ api = "lib"
    /\ op.name = "Client.getByURI" /\ op.pc = "fetch"
    /\ op' = [SettleOnce(op, "rejected", "UnexpectedError")
                EXCEPT !.pc = "done", !.fetchFailed = TRUE,
                       !.inner = IF op.inner = "pending" THEN "UnexpectedError"
                                                          ELSE op.inner]
    /\ OpFrame

\* The caller has the outcome; the next call may begin.
OpReturn ==
    /\ api = "lib"
    /\ op.pc = "done"
    /\ op' = IdleOp
    /\ OpFrame

NextClient ==
    \/ \E tok \in Tokens : Login(tok)
    \/ Tick
    \/ \E m \in ArtistMethods, a \in ArgValues, adv \in BOOLEAN : ArtistCall(m, a, adv)
    \/ \E n \in ItemCounts(op.name) : ArtistFetchOk(n)
    \/ ArtistFetchFail
    \/ ArtistCodeOk
    \/ ArtistCodeFail
    \/ \E q \in ArgValues : ClientSearch(q)
    \/ ClientSearchOk
    \/ ClientSearchFail
    \/ \E b \in BOOLEAN : Request(b)
    \/ RequestThen
    \/ RequestFetchFail
    \/ RequestCatch
    \/ \E u \in UriValues : GetByURI(u)
    \/ GetByURIOk
    \/ GetByURIFail
    \/ OpReturn

Next == NextPlaylist \/ NextClient

Spec == Init /\ [][Next]_vars

\* ===================================================================== claims

\* The serials of the Playlist objects constructed so far that carry id K.
ObservedFor(K) == {k \in 1..Len(objs) : objs[k] = K}

\* C1: a get called with force = false while the cache holds an entry under
\* its id completes at once with exactly that entry and sends no request.
C1_CachedGetIsServedFromCache ==
    [][\A s \in Slots :
          ( /\ calls[s].pc = "idle"
            /\ calls'[s].method = "get"
            /\ calls'[s].forceArg = "false"
            /\ cache[calls'[s].id] # NoObj )
          => ( /\ calls'[s].pc = "done"
               /\ calls'[s].ret = PlaylistValue(cache[calls'[s].id])
               /\ calls'[s].http = 0
               /\ calls'[s].req = NoReq )]_vars

\* A get with force = false has been answered from the cache without a request.
C1_Witness ==
    \E s \in Slots :
        /\ calls[s].method = "get" /\ calls[s].forceArg = "false"
        /\ calls[s].pc = "done" /\ calls[s].http = 0
        /\ calls[s].ret.kind = "playlist"
        /\ calls[s].ret.obj = cache[calls[s].id]

\* C2: a get with force = true, or with force omitted while caching is
\* disabled, sends a request for the playlist, and a playlist it returns was
\* constructed after the call began (so it is not an object cached before);
\* a get with force omitted while caching is enabled consults the cache: it
\* sends no request when a playlist with its id had been observed before.
C2_ForcedGetAlwaysFetches ==
    \A s \in Slots :
        /\ ( /\ calls[s].method = "get"
             /\ \/ calls[s].forceArg = "true"
                \/ calls[s].forceArg = "omitted" /\ ~cacheOptions.cachePlaylists )
           => ( /\ calls[s].http = 1
                /\ calls[s].pc = "awaiting" =>
                      calls[s].req.path = <<"/playlists/", calls[s].id>>
                /\ calls[s].pc = "done" /\ calls[s].ret.kind = "playlist" =>
                      calls[s].ret.obj > calls[s].born )
        /\ ( /\ calls[s].method = "get"
             /\ calls[s].forceArg = "omitted" /\ cacheOptions.cachePlaylists
             /\ \E k \in ObservedFor(calls[s].id) : k <= calls[s].born )
           => ( /\ calls[s].http = 0
                /\ calls[s].pc = "done"
                /\ calls[s].ret.kind = "playlist" /\ calls[s].ret.obj <= calls[s].born )

\* A get with force = true began while its id was cached and returned a playlist.
C2_Witness ==
    \E s \in Slots :
        /\ calls[s].method = "get" /\ calls[s].forceArg = "true"
        /\ calls[s].pc = "done" /\ calls[s].ret.kind = "playlist"
        /\ cacheOptions.cachePlaylists
        /\ \E k \in ObservedFor(calls[s].id) : k <= calls[s].born

\* C3: a cache entry under key K is the most recently constructed Playlist
\* object that carries id K.
C3_CacheHoldsLatestObserved ==
    \A K \in Ids :
        cache[K] # NoObj =>
            /\ cache[K] \in ObservedFor(K)
            /\ \A k \in ObservedFor(K) : k <= cache[K]

\* An entry has been replaced: its key was observed at least twice.
C3_Witness ==
    \E K \in Ids : cache[K] # NoObj /\ Cardinality(ObservedFor(K)) >= 2

\* A get answered with an object that already existed when the call began.
C4_ServedFromCache(c) ==
    c.method = "get" /\ c.ret.kind = "playlist" /\ c.ret.obj <= c.born

\* The getCodeImage requests an Artist call has sent when it is done: none
\* without advanced or after a failed primary request, else one per item, up
\* to and including the first that failed.
C4_CodeRequests(o) ==
    IF o.advanced /\ ~o.fetchFailed
    THEN (IF o.codeFailed THEN Len(o.coded) + 1 ELSE o.n)
    ELSE 0

\* C4 as stated: every completed PlaylistManager or Artist call has sent
\* exactly one HTTP request.
C4_ExactlyOneHttpCall ==
    /\ \A s \in Slots : calls[s].pc = "done" => calls[s].http = 1
    /\ (op.name \in ArtistMethods /\ op.pc = "done") => op.http = 1

\* C4 as amended: a completed call has sent exactly one request, except that
\* a get answered from the cache (force false) has sent none, and an Artist
\* call with advanced = true has sent, after its one primary request
\* succeeded, one getCodeImage request per item up to the first that failed.
C4_OneCallExceptCacheHitAndAdvanced ==
    /\ \A s \in Slots :
          /\ calls[s].pc = "awaiting" => calls[s].http = 1
          /\ calls[s].pc = "done" =>
                /\ calls[s].http = (IF C4_ServedFromCache(calls[s]) THEN 0 ELSE 1)
                /\ C4_ServedFromCache(calls[s]) => calls[s].forceArg # "true"
    /\ (op.name \in ArtistMethods /\ op.pc = "done") =>
          op.http = 1 + C4_CodeRequests(op)

\* An Artist call with advanced = true returned two items and is done after
\* three requests.
C4_Witness ==
    /\ op.name \in ArtistMethods /\ op.pc = "done"
    /\ op.advanced /\ op.n = 2 /\ op.settled = "resolved"
    /\ op.http = 3


\* The fixed value each PlaylistManager method resolves with after a failure.
C5_DefaultOf(m) ==
    CASE m \in {"search", "getTracks"} ->
            [kind |-> "paging", limit |-> 0, offset |-> 0, total |-> 0, items |-> <<>>]
      [] m \in {"getImages", "userFollows"} -> [kind |-> "array", items |-> <<>>]
      [] m \in {"get", "addItems", "reorderItems", "removeItems"} -> [kind |-> "null"]
      [] m = "uploadImage" -> [kind |-> "bool", val |-> FALSE]

C6_HttpFailureIsUnexpectedError ==
    (op.name \in ArtistMethods \cup {"Client.search", "Client.getByURI"}) =>
        /\ op.settled = "rejected" => op.err \in {"MissingParamError", "UnexpectedError"}
        /\ (op.pc = "done" /\ (op.fetchFailed \/ op.codeFailed)) =>
              (op.settled = "rejected" /\ op.err = "UnexpectedError")

\* C7: a login with a missing token throws MissingParamError and leaves
\* token, the managers, startedAt, cacheOptions and cache as they were.
C7_LoginWithoutTokenChangesNothing ==
    [][(login'.n # login.n /\ login'.arg = "")
          => ( /\ login'.result = "MissingParamError"
               /\ token' = token
               /\ mgrToken' = mgrToken
               /\ startedAt' = startedAt
               /\ cacheOptions' = cacheOptions
               /\ cache' = cache )]_vars

\* A login without token has thrown after an earlier login had succeeded and
\* the clock had moved on.
C7_Witness ==
    /\ login.result = "MissingParamError" /\ login.n >= 2
    /\ token \in {"t1", "t2"}
    /\ now > startedAt

\* C8: the request of a search carries type = 'playlist' and q = query,
\* whatever the options hold.
C8_SearchSendsTypeAndQuery ==
    \A s \in Slots :
        (calls[s].method = "search" /\ calls[s].pc = "awaiting")
        => ( /\ {"type", "q"} \subseteq DOMAIN calls[s].req.params
             /\ calls[s].req.params["type"] = "playlist"
             /\ calls[s].req.params["q"] = calls[s].query
             /\ \A k \in (DOMAIN calls[s].options) \ {"type", "q"} :
                   calls[s].req.params[k] = calls[s].options[k] )

\* A search is in flight whose options carried another type and another q.
C8_Witness ==
    \E s \in Slots :
        /\ calls[s].method = "search" /\ calls[s].pc = "awaiting"
        /\ {"type", "q"} \subseteq DOMAIN calls[s].options
        /\ calls[s].options["type"] # "playlist"
        /\ calls[s].options["q"] # calls[s].query

\* C9 as stated: when request is over its callback has been invoked exactly
\* once, with the data after a successful fetch and with the error after a
\* failed one.
C9_CallbackInvokedExactlyOnce ==
    (op.name = "Client.request" /\ op.pc = "done") =>
        op.cb = (IF op.fetchFailed THEN <<"error">> ELSE <<"data">>)

\* The call in slot s is a get for id that began with caching enabled, force
\* omitted and no Playlist object for id constructed yet.
C10_MissedGet(c, id) ==
    /\ c.method = "get" /\ c.id = id /\ c.forceArg = "omitted"
    /\ cacheOptions.cachePlaylists
    /\ \A k \in ObservedFor(id) : k > c.born

\* C10: of two overlapping gets for the same uncached id, the second to start
\* sends its own request while the first is still in flight, the arrival of
\* one response leaves the other call as it was, and when the later response
\* arrives the cache entry becomes the object built from it.
C10_ConcurrentGetsAreIndependent ==
    [][\A s, t \in Slots : \A id \in Ids :
          (s # t /\ C10_MissedGet(calls[s], id)) =>
          /\ \* t starts while s is in flight
             ( /\ calls[s].pc = "awaiting"
               /\ calls[t].pc = "idle"
               /\ cache[id] = NoObj
               /\ C10_MissedGet(calls'[t], id) )
             => ( /\ calls'[t].pc = "awaiting"
                  /\ calls'[t].http = 1
                  /\ calls'[t].req.path = <<"/playlists/", id>>
                  /\ calls'[s] = calls[s] )
          /\ \* the first response (that of s) arrives while t is in flight
             ( /\ calls[s].pc = "awaiting"
               /\ C10_MissedGet(calls[t], id) /\ calls[t].pc = "awaiting"
               /\ calls'[s].pc = "done" )
             => calls'[t] = calls[t]
          /\ \* the later response (that of t) arrives
             ( /\ calls[s].pc = "done" /\ calls[s].ret.kind = "playlist"
               /\ C10_MissedGet(calls[t], id) /\ calls[t].pc = "awaiting"
               /\ calls[s].ret.obj > calls[t].born
               /\ calls'[t].pc = "done" )
             => ( /\ calls[s].http = 1 /\ calls'[t].http = 1
                  /\ calls'[s] = calls[s]
                  /\ calls'[t].ret.kind = "playlist" =>
                        /\ cache'[id] = calls'[t].ret.obj
                        /\ calls'[t].ret.obj # calls[s].ret.obj
                  /\ calls'[t].ret.kind # "playlist" => cache'[id] = cache[id] )
      ]_vars

\* Two overlapping gets for the same uncached id have both completed, and the
\* cache holds the object of the response that arrived last.
C10_Witness ==
    \E s, t \in Slots : \E id \in Ids :
        /\ s # t
        /\ C10_MissedGet(calls[s], id) /\ C10_MissedGet(calls[t], id)
        /\ calls[s].pc = "done" /\ calls[t].pc = "done"
        /\ calls[s].ret.kind = "playlist" /\ calls[t].ret.kind = "playlist"
        /\ calls[s].http = 1 /\ calls[t].http = 1
        /\ calls[s].ret.obj < calls[t].ret.obj
        /\ cache[id] = calls[t].ret.obj

\* C11: the playlist cache never evicts: a key that holds an entry holds one
\* after every step of every operation, and an entry changes only by being
\* replaced with an object constructed in that step that carries the same id.
C11_CacheNeverEvicts ==
    [][\A K \in Ids :
          cache[K] # NoObj =>
             /\ cache'[K] # NoObj
             /\ cache'[K] # cache[K] =>
                   /\ cache'[K] > Len(objs)
                   /\ cache'[K] <= Len(objs')
                   /\ objs'[cache'[K]] = K]_vars

\* A forced get of a cached playlist has failed, and the entry is still there.
C11_Witness ==
    \E s \in Slots :
        /\ calls[s].method = "get" /\ calls[s].pc = "done" /\ calls[s].failed
        /\ cache[calls[s].id] # NoObj
        /\ cache[calls[s].id] <= calls[s].born

\* C12 as stated: no field of an entity object is written after its
\* constructor has returned: the Playlist objects constructed so far stay as
\* they are, and no item of an Artist call is given a field later on.
C12_EntityNeverWritten ==
    [][ /\ \A k \in 1..Len(objs) : k <= Len(objs') /\ objs'[k] = objs[k]
        /\ Len(op'.coded) <= Len(op.coded) ]_vars

\* C12, amended: a Playlist object is never written after construction and a
\* cache entry changes only by being replaced with an object constructed in
\* that step under its own id; an item of an Artist call is written after its
\* construction only by the advanced branch, which gives item i its codeImage
\* and dominantColor once, in index order, before the call has resolved.
C12_WrittenOnlyByAdvancedAnnotation ==
    [][ /\ \A k \in 1..Len(objs) : k <= Len(objs') /\ objs'[k] = objs[k]
        /\ \A K \in Ids :
              cache'[K] # cache[K] =>
                 /\ cache'[K] > Len(objs) /\ cache'[K] <= Len(objs')
                 /\ objs'[cache'[K]] = K
        /\ Len(op'.coded) > Len(op.coded) =>
              /\ op.advanced /\ op.pc = "code"
              /\ op.i < op.n
              /\ \A j \in 1..Len(op.coded) : op.coded[j] # op.i
              /\ op'.coded = Append(op.coded, op.i)
              /\ op.settled # "resolved" ]_vars

\* The first of two items of an advanced Artist call has been given its
\* codeImage after it was constructed; the second is being asked for.
C12_Witness ==
    /\ op.name \in ArtistMethods /\ op.pc = "code"
    /\ op.advanced /\ op.n = 2 /\ op.coded = <<0>>

\* The Artist methods that return an array of items.
C13_ArrayMethods == {"search", "getAlbums", "topTracks", "relatedArtists"}

\* The item indices 0, 1, ..., k-1 in order.
C13_FirstItems(k) == [j \in 1..k |-> j - 1]

\* C13: in an array-returning Artist call with advanced = true, no
\* getCodeImage request is sent before the primary request has answered; while
\* the request for item i is in flight items 0..i-1, and only they, have been
\* annotated in index order and it is the only request outstanding; the call
\* resolves only when all n items are annotated after 1 + n requests; and a
\* failed getCodeImage leaves the call rejected, never resolved.
C13_AdvancedAnnotatesInOrder ==
    (op.name \in C13_ArrayMethods /\ op.advanced) =>
        /\ op.pc = "fetch" =>
              op.coded = <<>> /\ op.http = 1 /\ op.settled # "resolved"
        /\ op.pc = "code" =>
              /\ op.i < op.n
              /\ op.coded = C13_FirstItems(op.i)
              /\ op.http = 1 + Len(op.coded) + 1
              /\ op.settled # "resolved"
        /\ op.settled = "resolved" =>
              /\ op.pc = "done"
              /\ op.coded = C13_FirstItems(op.n)
              /\ op.http = 1 + op.n
              /\ ~op.codeFailed /\ ~op.fetchFailed
        /\ op.codeFailed =>
              op.pc = "done" /\ op.settled = "rejected"

\* An advanced call that returns an array has resolved with both of its two
\* items annotated, item 0 before item 1.
C13_Witness ==
    /\ op.name \in C13_ArrayMethods /\ op.advanced
    /\ op.settled = "resolved" /\ op.coded = <<0, 1>>

\* The manager that handles entities of a URI type.
C14_ManagerOfType(type) ==
    CASE type = "album"   -> "albums"
      [] type = "artist"  -> "artists"
      [] type = "episode" -> "episodes"
      [] type = "show"    -> "shows"
      [] type = "track"   -> "tracks"
      [] type = "user"    -> "users"
      [] OTHER            -> "none"

\* C14: getByURI fetches a URI of type album, artist, episode, show, track or
\* user through the get of the manager of that same type and resolves only
\* with that manager's result; a URI of any other type is rejected with
\* UnexpectedError and no request is sent.
C14_GetByURIUsesManagerOfItsType ==
    op.name = "Client.getByURI" =>
        /\ op.mgr = C14_ManagerOfType(op.uriType)
        /\ op.settled = "resolved" => op.inner = "resolved"
        /\ op.mgr = "none" =>
              /\ op.settled = "rejected" /\ op.err = "UnexpectedError"
              /\ op.http = 0

\* C15: after construction and after any sequence of login calls, whether
\* they succeeded or threw, client.token is a non-empty string ('NO TOKEN' or
\* a token that was passed in), it is the argument of the last login if that
\* login succeeded, and every manager of the client was built with it.
C15_ManagersHoldCurrentToken ==
    /\ token # ""
    /\ token \in (Tokens \cup {"NO TOKEN"})
    /\ login.result = "ok" => token = login.arg
    /\ \A m \in Managers : mgrToken[m] = token

\* A login with a token has succeeded some time after construction, the last
\* login threw for want of a token, and the managers still hold the token.
C15_Witness ==
    /\ login.n >= 2 /\ login.result = "MissingParamError"
    /\ startedAt > 0
    /\ token \in {"t1", "t2"}
    /\ \A m \in Managers : mgrToken[m] = token

\* C16: the playlist cache changes only in the step in which a search or a
\* get receives the answer to its request, successfully and with
\* cachePlaylists true; every other step (a call being issued, a get served
\* from the cache, a failure, any step of getTracks, getImages, userFollows,
\* addItems, reorderItems, removeItems or uploadImage, a search or get with
\* caching disabled) leaves it as it was.
C16_CacheWrittenOnlyBySearchAndGet ==
    [][cache' # cache =>
          /\ cacheOptions.cachePlaylists
          /\ \E s \in Slots :
                /\ calls[s].pc = "awaiting"
                /\ calls[s].method \in {"search", "get"}
                /\ calls'[s].pc = "done" /\ ~calls'[s].failed]_vars

\* addItems on a cached playlist has succeeded, and a get of that playlist,
\* not forced, has been served the object cached before, without a request.
C16_Witness ==
    \E s, t \in Slots :
        /\ calls[t].method = "addItems" /\ calls[t].pc = "done" /\ ~calls[t].failed
        /\ calls[s].method = "get" /\ calls[s].pc = "done"
        /\ calls[s].id = calls[t].id
        /\ calls[s].forceArg # "true" /\ calls[s].http = 0
        /\ calls[s].ret = PlaylistValue(cache[calls[s].id])
        /\ calls[s].ret.obj <= calls[s].born
====
